---- MODULE Spec2Model ----
(***************************************************************************)
(* Board game rating predictor (JMB_recommendation_engine_method_3.1_v1):  *)
(* the notebook's pipeline cell, do_ALS and estimate_ratings as state      *)
(* machines.                                                               *)
(*                                                                         *)
(* Numbers.  Ratings and factor values are integers.  A pandas cell is a   *)
(* set: {} is NaN, {v} is the value v.  A mean is kept as the pair         *)
(* <<sum, count>>.  cdist's distances are kept squared: argsort only reads *)
(* their order.  numpy.linalg.solve and TruncatedSVD are not computed:     *)
(* their results are any values of FactorVecs / CoordVecs.                 *)
(***************************************************************************)
EXTENDS Integers, Sequences, FiniteSets

VARIABLES
  pc,               \* position in the notebook / in the running function
  \* ---- globals of the notebook
  userdata,         \* set of records [userID, gameID, rating]
  testdata,         \* sequence of records [userID, gameID]
  traindata,        \* userdata restricted to the users of testdata
  testdata_filt,    \* testdata restricted to the users of userdata
  train_p,          \* the pivot table of traindata
  train_p_filled,   \* the completed table
  coords,           \* one coordinate vector per row of train_p_filled
  ratings_est,      \* the array estimate_ratings returned
  test_pred,        \* the table written to the csv file
  \* ---- do_ALS
  Q, W, X, Y, errors, ii, Q_hat, n_iterations, weighted, verbose,
  \* ---- estimate_ratings
  e_testdata, e_coords, e_train_p, numneighbors2use,
  rating,           \* the list of estimates built so far
  qi,               \* position of the iterrows() loop in e_testdata
  ind,              \* the argsort of the current query
  wi,               \* position of the neighbour walk in ind
  ratings,          \* the ratings collected for the current query
  visited,          \* the users the walk has examined for the current query
  picked            \* the users whose rating the walk has collected

pipeVars == <<userdata, testdata, traindata, testdata_filt, train_p,
              train_p_filled, coords, ratings_est, test_pred>>
alsVars  == <<Q, W, X, Y, errors, ii, Q_hat, n_iterations, weighted, verbose>>
estArgs  == <<e_testdata, e_coords, e_train_p, numneighbors2use>>
estVars  == <<rating, qi, ind, wi, ratings, visited, picked>>
vars     == <<pc, pipeVars, alsVars, estArgs, estVars>>

----------------------------------------------------------------------------
(* Bounds of the model *)

Users  == {1, 2, 3}          \* userIDs
DataUsers == {1, 2}          \* userIDs that may have records in userdata
Items  == {1, 2}             \* gameIDs
RatingVals == {0, 7}         \* ratings a record of userdata may carry
EstVals    == {4, 8}         \* values of the table handed to estimate_ratings
InitVecs   == {<<1>>, <<4>>} \* 5 * np.random.rand: factor vectors in [0, 5)
FactorVecs == {<<-1>>, <<4>>}  \* factor vectors np.linalg.solve returns
CoordVecs  == {<<0>>, <<1>>}          \* user-space coordinates
MaxQueries   == 2            \* longest query sequence
MaxNeighbors == 2            \* largest numneighbors2use drawn
MaxIter      == 2            \* largest n_iterations drawn

----------------------------------------------------------------------------
(* Values and small helpers *)

NaN == {}
isnan(c) == c = NaN
ValueOf(c) == CHOOSE v \in c : TRUE

\* variables of a function that has not been called yet
estUnused ==
  /\ e_testdata = <<>> /\ e_coords = <<>> /\ e_train_p = <<>> /\ numneighbors2use = 0
  /\ rating = <<>> /\ qi = 1
  /\ ind = <<>> /\ wi = 1 /\ ratings = <<>> /\ visited = <<>> /\ picked = <<>>

alsUnused ==
  /\ Q = <<>> /\ W = <<>> /\ X = <<>> /\ Y = <<>> /\ errors = <<>> /\ ii = NaN
  /\ Q_hat = <<>>

Range(s) == {s[i] : i \in DOMAIN s}

RECURSIVE SumSeq(_)
SumSeq(s) == IF s = <<>> THEN 0 ELSE s[1] + SumSeq(Tail(s))

RECURSIVE sorted(_)
sorted(S) ==
  IF S = {} THEN <<>>
  ELSE LET m == CHOOSE x \in S : \A y \in S : x <= y
       IN  <<m>> \o sorted(S \ {m})

SeqsUpTo(S, n) == UNION {[1..k -> S] : k \in 0..n}

\* pandas.DataFrame: row labels, column labels, one cell per label pair
Labels(index, columns) == Range(index) \X Range(columns)
Frame(index, columns, cells) == [index |-> index, columns |-> columns, cell |-> cells]

\* Index.get_loc: the position of a label (KeyError when HasKey is false)
HasKey(labels, key) == key \in Range(labels)
get_loc(labels, key) == CHOOSE p \in 1..Len(labels) : labels[p] = key

----------------------------------------------------------------------------
(* numpy arrays: a matrix is a function on (row, column) positions *)

RECURSIVE SumOver(_, _)
SumOver(S, f) ==
  IF S = {} THEN 0
  ELSE LET k == CHOOSE x \in S : TRUE IN f[k] + SumOver(S \ {k}, f)

\* train_p.fillna(0).values
fillna0(tp) ==
  [k \in (1..Len(tp.index)) \X (1..Len(tp.columns)) |->
     LET c == tp.cell[<<tp.index[k[1]], tp.columns[k[2]]>>]
     IN  IF isnan(c) THEN 0 ELSE ValueOf(c)]

\* np.dot(X, Y): X holds one factor vector per row, Y one per column
Dot(x, y) ==
  [k \in (DOMAIN x) \X (DOMAIN y) |->
     SumSeq([f \in 1..Len(x[k[1]]) |-> x[k[1]][f] * y[k[2]][f]])]

\* mutant of WeightMatrix: the test `Q >= 0`, which the filled 0 passes
WeightMatrixNonNegative(q) == [k \in DOMAIN q |-> IF q[k] >= 0 THEN 1 ELSE 0]

\* W = Q > 0.5; W[W == True] = 1; W[W == False] = 0
WeightMatrix(q) == [k \in DOMAIN q |-> IF 2 * q[k] > 1 THEN 1 ELSE 0]

\* np.sum((W * (Q - np.dot(X, Y)))**2)
get_error(q, x, y, w) ==
  LET d == Dot(x, y)
      sq == [k \in DOMAIN q |-> (w[k] * (q[k] - d[k])) * (w[k] * (q[k] - d[k]))]
  IN  SumOver(DOMAIN q, sq)

Rows(q) == {k[1] : k \in DOMAIN q}
Cols(q) == {k[2] : k \in DOMAIN q}

----------------------------------------------------------------------------
(* do_ALS *)

estIdle == UNCHANGED <<estArgs, estVars>>

\* the next value of `for ii in range(n_iterations)`; ii = NaN: not yet bound
NextII == IF ii = NaN THEN 0 ELSE ValueOf(ii) + 1

\* entry: the argument train_p.fillna(0).values, W, m, n, the random X and Y
ALSEnter ==
  /\ pc = "als_call"
  /\ Q' = fillna0(train_p)
  /\ W' = WeightMatrix(Q')
  /\ X' \in [Rows(Q') -> InitVecs]
  /\ Y' \in [Cols(Q') -> InitVecs]
  /\ errors' = <<>>
  /\ ii' = NaN
  /\ pc' = "als_loop"
  /\ UNCHANGED <<Q_hat, n_iterations, weighted, verbose, pipeVars>>
  /\ estIdle

\* one pass of the loop of the `if not weighted:` branch
ALSSweepUnweighted ==
  /\ pc = "als_loop"
  /\ ~weighted
  /\ NextII < n_iterations
  /\ ii' = {NextII}
  /\ X' \in [Rows(Q) -> FactorVecs]
  /\ Y' \in [Cols(Q) -> FactorVecs]
  /\ errors' = Append(errors, get_error(Q, X', Y', W))
  /\ UNCHANGED <<pc, Q, W, Q_hat, n_iterations, weighted, verbose, pipeVars>>
  /\ estIdle

\* one pass of the loop of the `else:` branch: every row of X, then every
\* column of Y, then the error
ALSSweepWeighted ==
  /\ pc = "als_loop"
  /\ weighted
  /\ NextII < n_iterations
  /\ ii' = {NextII}
  /\ X' \in [Rows(Q) -> FactorVecs]
  /\ Y' \in [Cols(Q) -> FactorVecs]
  /\ errors' = Append(errors, get_error(Q, X', Y', W))
  /\ UNCHANGED <<pc, Q, W, Q_hat, n_iterations, weighted, verbose, pipeVars>>
  /\ estIdle

\* after the loop of the `if not weighted:` branch: Q_hat, the print, return
ALSReturnUnweighted ==
  /\ pc = "als_loop"
  /\ ~weighted
  /\ NextII >= n_iterations
  /\ Q_hat' = Dot(X, Y)
  /\ pc' = "als_returned"
  /\ UNCHANGED <<Q, W, X, Y, errors, ii, n_iterations, weighted, verbose, pipeVars>>
  /\ estIdle

\* the print after the loop of the `else:` branch reads ii
PrintReadsUnboundII == verbose /\ ii = NaN

\* after the loop of the `else:` branch: the print of ii, Q_hat, return
ALSReturnWeighted ==
  /\ pc = "als_loop"
  /\ weighted
  /\ NextII >= n_iterations
  /\ IF PrintReadsUnboundII
     THEN pc' = "UnboundLocalError" /\ UNCHANGED Q_hat
     ELSE pc' = "als_returned" /\ Q_hat' = Dot(X, Y)
  /\ UNCHANGED <<Q, W, X, Y, errors, ii, n_iterations, weighted, verbose, pipeVars>>
  /\ estIdle

ALSNext ==
  \/ ALSEnter
  \/ ALSSweepUnweighted
  \/ ALSSweepWeighted
  \/ ALSReturnUnweighted
  \/ ALSReturnWeighted

----------------------------------------------------------------------------
(* The pipeline cell *)

RatingMax == 10            \* clip_upper(10)
RatingMin == 1             \* clip_lower(1)
PipelineNeighbors == 50    \* numneighbors2use = 50
PipelineIterations == 8    \* n_iterations = 8

UsersOf(rs) == {r.userID : r \in rs}
GamesOf(rs) == {r.gameID : r \in rs}

\* DataFrame.pivot(index="userID", columns="gameID", values="rating")
pivot(rs) ==
  LET index   == sorted(UsersOf(rs))
      columns == sorted(GamesOf(rs))
  IN  Frame(index, columns,
            [k \in Labels(index, columns) |->
               IF \E r \in rs : r.userID = k[1] /\ r.gameID = k[2]
               THEN {(CHOOSE r \in rs : r.userID = k[1] /\ r.gameID = k[2]).rating}
               ELSE NaN])

\* pd.DataFrame(array, index=train_p.index, columns=train_p.columns)
ToFrame(a, tp) ==
  Frame(tp.index, tp.columns,
        [k \in Labels(tp.index, tp.columns) |->
           {a[<<get_loc(tp.index, k[1]), get_loc(tp.columns, k[2])>>]}])

\* DataFrame.clip_upper(10), DataFrame.clip_lower(1): NaN stays NaN
clip_upper(fr, hi) ==
  Frame(fr.index, fr.columns,
        [k \in DOMAIN fr.cell |->
           IF isnan(fr.cell[k]) THEN NaN
           ELSE {IF ValueOf(fr.cell[k]) > hi THEN hi ELSE ValueOf(fr.cell[k])}])
\* mutant of clip_lower: the table left as it is
clip_lower_skipped(fr, lo) == fr

clip_lower(fr, lo) ==
  Frame(fr.index, fr.columns,
        [k \in DOMAIN fr.cell |->
           IF isnan(fr.cell[k]) THEN NaN
           ELSE {IF ValueOf(fr.cell[k]) < lo THEN lo ELSE ValueOf(fr.cell[k])}])

\* traindata = userdata[userdata.userID.isin(set(testdata.userID))]
\* testdata_filt = testdata[testdata.userID.isin(set(userdata.userID))]
Filter ==
  /\ pc = "filter"
  /\ traindata' = {r \in userdata : r.userID \in UsersOf(Range(testdata))}
  /\ testdata_filt' = SelectSeq(testdata, LAMBDA q : q.userID \in UsersOf(userdata))
  /\ pc' = "pivot"
  /\ UNCHANGED <<userdata, testdata, train_p, train_p_filled, coords, ratings_est,
                 test_pred, alsVars>>
  /\ estIdle

Pivot ==
  /\ pc = "pivot"
  /\ train_p' = pivot(traindata)
  /\ pc' = "als_call"
  /\ UNCHANGED <<userdata, testdata, traindata, testdata_filt, train_p_filled, coords,
                 ratings_est, test_pred, alsVars>>
  /\ estIdle

\* the whole call do_ALS(train_p.fillna(0).values, ...) as the cell sees it:
\* the factors the last sweep left and their product (errors is not kept)
FillByALS ==
  /\ pc = "als_call"
  /\ Q' = fillna0(train_p)
  /\ W' = WeightMatrix(Q')
  /\ X' \in [Rows(Q') -> FactorVecs]
  /\ Y' \in [Cols(Q') -> FactorVecs]
  /\ Q_hat' = Dot(X', Y')
  /\ pc' = "als_returned"
  /\ UNCHANGED <<errors, ii, n_iterations, weighted, verbose, pipeVars>>
  /\ estIdle

WrapFrame ==
  /\ pc = "als_returned"
  /\ train_p_filled' = ToFrame(Q_hat, train_p)
  /\ pc' = "clip_upper"
  /\ UNCHANGED <<userdata, testdata, traindata, testdata_filt, train_p, coords,
                 ratings_est, test_pred, alsVars>>
  /\ estIdle

ClipUpper ==
  /\ pc = "clip_upper"
  /\ train_p_filled' = clip_upper(train_p_filled, RatingMax)
  /\ pc' = "clip_lower"
  /\ UNCHANGED <<userdata, testdata, traindata, testdata_filt, train_p, coords,
                 ratings_est, test_pred, alsVars>>
  /\ estIdle

ClipLower ==
  /\ pc = "clip_lower"
  /\ train_p_filled' = clip_lower(train_p_filled, RatingMin)
  /\ pc' = "svd"
  /\ UNCHANGED <<userdata, testdata, traindata, testdata_filt, train_p, coords,
                 ratings_est, test_pred, alsVars>>
  /\ estIdle

\* coords = TruncatedSVD(n_components=numdims).fit_transform(train_p_filled)
Project ==
  /\ pc = "svd"
  /\ coords' \in [1..Len(train_p_filled.index) -> CoordVecs]
  /\ pc' = "estimate"
  /\ UNCHANGED <<userdata, testdata, traindata, testdata_filt, train_p, train_p_filled,
                 ratings_est, test_pred, alsVars>>
  /\ estIdle

\* estimate_ratings(testdata_filt, coords, train_p_filled, numneighbors2use)
CallEstimate ==
  /\ pc = "estimate"
  /\ numneighbors2use' = PipelineNeighbors
  /\ e_testdata' = testdata_filt
  /\ e_coords' = coords
  /\ e_train_p' = train_p_filled
  /\ rating' = <<>>
  /\ qi' = 1
  /\ pc' = "est_loop"
  /\ UNCHANGED <<pipeVars, alsVars, ind, wi, ratings, visited, picked>>

----------------------------------------------------------------------------
(* estimate_ratings *)

\* cdist(reshape(targetcoord,(1,-1)), coords): squared Euclidean distances
cdist(target, cs) ==
  [p \in 1..Len(cs) |->
     SumSeq([d \in 1..Len(target) |-> (target[d] - cs[p][d]) * (target[d] - cs[p][d])])]

\* mutant of argsort: the distances in descending order
argsort_descending(dists) ==
  {p \in [1..Len(dists) -> 1..Len(dists)] :
     /\ \A a, b \in 1..Len(dists) : a # b => p[a] # p[b]
     /\ \A a, b \in 1..Len(dists) : a < b => dists[p[a]] >= dists[p[b]]}

\* np.argsort(dists), kind='quicksort': any permutation that orders the
\* distances ascending; the order of equal distances is not determined.
argsort(dists) ==
  {p \in [1..Len(dists) -> 1..Len(dists)] :
     /\ \A a, b \in 1..Len(dists) : a # b => p[a] # p[b]
     /\ \A a, b \in 1..Len(dists) : a < b => dists[p[a]] <= dists[p[b]]}

\* a rational number sum/count in lowest terms
RECURSIVE gcd(_, _)
gcd(a, b) == IF b = 0 THEN a ELSE gcd(b, a % b)
Ratio(s, n) == LET g == gcd(n, s) IN <<s \div g, n \div g>>

\* mutant of mean: 0 for the empty list
mean_zero_if_empty(rs) == IF rs = <<>> THEN {<<0, 1>>} ELSE {Ratio(SumSeq(rs), Len(rs))}

\* np.mean(ratings): nan for the empty list
mean(rs) == IF rs = <<>> THEN NaN ELSE {Ratio(SumSeq(rs), Len(rs))}

\* the test `if ~np.isnan(train_p[rec.gameID][user])`
HasRating(tp, game, user) == ~isnan(tp.cell[<<user, game>>])

\* mutant of EnoughRatings: the test `>` for `>=`
MoreThanEnough(rs, k) == Len(rs) > k

\* the test `if len(ratings) >= numneighbors2use: break`
EnoughRatings(rs, k) == Len(rs) >= k

\* mutant of AppendEstimate: the estimate put in front
PrependEstimate(out, rs) == <<mean(rs)>> \o out

\* rating.append(np.mean(ratings))
AppendEstimate(out, rs) == Append(out, mean(rs))

rec == e_testdata[qi]

\* for index, rec in testdata.iterrows(): ... ind, = np.argsort(dists); ratings = []
EstBegin ==
  /\ pc = "est_loop"
  /\ qi <= Len(e_testdata)
  /\ IF ~HasKey(e_train_p.index, rec.userID)
     THEN /\ pc' = "KeyError"
          /\ UNCHANGED <<ind, wi, ratings, visited, picked>>
     ELSE LET userindex   == get_loc(e_train_p.index, rec.userID)
              targetcoord == e_coords[userindex]
              dists       == cdist(targetcoord, e_coords)
          IN  /\ \E s \in argsort(dists) : ind' = s
              /\ wi' = 1
              /\ ratings' = <<>>
              /\ visited' = <<>>
              /\ picked' = <<>>
              /\ pc' = "walk"
  /\ UNCHANGED <<pipeVars, alsVars, estArgs, rating, qi>>

\* one pass of `for user in train_p.index[ind]:`
EstWalk ==
  /\ pc = "walk"
  /\ wi <= Len(ind)
  /\ LET user == e_train_p.index[ind[wi]]
     IN  IF ~HasKey(e_train_p.columns, rec.gameID)
         THEN /\ pc' = "KeyError"
              /\ UNCHANGED <<wi, ratings, visited, picked>>
         ELSE /\ visited' = Append(visited, user)
              /\ IF HasRating(e_train_p, rec.gameID, user)
                 THEN /\ ratings' = Append(ratings, ValueOf(e_train_p.cell[<<user, rec.gameID>>]))
                      /\ picked' = Append(picked, user)
                      /\ IF EnoughRatings(ratings', numneighbors2use)
                         THEN pc' = "mean" /\ wi' = wi
                         ELSE pc' = "walk" /\ wi' = wi + 1
                 ELSE /\ UNCHANGED <<ratings, picked>>
                      /\ pc' = "walk" /\ wi' = wi + 1
  /\ UNCHANGED <<pipeVars, alsVars, estArgs, rating, qi, ind>>

\* the walk is over (break, or index exhausted): rating.append(np.mean(ratings))
EstMean ==
  /\ \/ pc = "mean"
     \/ pc = "walk" /\ wi > Len(ind)
  /\ rating' = AppendEstimate(rating, ratings)
  /\ qi' = qi + 1
  /\ pc' = "est_loop"
  /\ ind' = <<>> /\ wi' = 1 /\ visited' = <<>> /\ picked' = <<>>
  /\ UNCHANGED <<pipeVars, alsVars, estArgs, ratings>>

\* return np.array(rating), assigned to ratings_est by the caller
EstReturn ==
  /\ pc = "est_loop"
  /\ qi > Len(e_testdata)
  /\ ratings_est' = rating
  /\ pc' = "submit"
  /\ UNCHANGED <<userdata, testdata, traindata, testdata_filt, train_p,
                 train_p_filled, coords, test_pred, alsVars, estArgs, estVars>>

\* test_pred = testdata_filt.copy(); test_pred["rating"] = ratings_est
WithRatings(queries, est) ==
  [j \in 1..Len(queries) |->
     [userID |-> queries[j].userID, gameID |-> queries[j].gameID, rating |-> est[j]]]

Submit ==
  /\ pc = "submit"
  /\ test_pred' = WithRatings(testdata_filt, ratings_est)
  /\ pc' = "done"
  /\ UNCHANGED <<userdata, testdata, traindata, testdata_filt, train_p,
                 train_p_filled, coords, ratings_est, alsVars, estArgs, estVars>>

EstNext == EstBegin \/ EstWalk \/ EstMean \/ EstReturn \/ Submit

----------------------------------------------------------------------------
(* estimate_ratings called on any table, coordinates and queries *)

QueryUsers == {1, 2}
Queries == [userID : QueryUsers, gameID : Items]

\* tables over all users, or all but the first, and all games: the cells of
\* the first game take every value; a later game is rated by nobody, or by
\* the last user alone
EstCells(u, g) ==
  IF g = 1 THEN {NaN} \cup {{v} : v \in EstVals}
  ELSE IF u = 3 THEN {NaN, {8}} ELSE {NaN}
EstFrames ==
  UNION {
    {[index |-> sorted(U), columns |-> sorted(Items), cell |-> c] :
       c \in {f \in [U \X Items -> {NaN} \cup {{v} : v \in EstVals}] :
                \A k \in U \X Items : f[k] \in EstCells(k[1], k[2])}}
    : U \in {Users, Users \ {1}}}

InitEst ==
  /\ pc = "est_loop"
  /\ e_train_p \in EstFrames
  /\ e_coords \in [1..Len(e_train_p.index) -> CoordVecs]
  /\ e_coords[1] = <<0>>
  /\ e_testdata \in SeqsUpTo(Queries, MaxQueries)
  /\ numneighbors2use \in 0..MaxNeighbors
  /\ testdata_filt = e_testdata
  /\ rating = <<>> /\ qi = 1
  /\ ind = <<>> /\ wi = 1 /\ ratings = <<>> /\ visited = <<>> /\ picked = <<>>
  /\ userdata = {} /\ testdata = <<>> /\ traindata = {}
  /\ train_p = <<>> /\ train_p_filled = <<>> /\ coords = <<>>
  /\ ratings_est = <<>> /\ test_pred = <<>>
  /\ alsUnused
  /\ n_iterations = 0 /\ weighted = TRUE /\ verbose = TRUE

SpecEst == InitEst /\ [][EstNext]_vars

----------------------------------------------------------------------------
(* do_ALS called on the pivot of any records, then the rest of the cell up to
   the call of estimate_ratings *)

RecordSets(UU) ==
  {{[userID |-> k[1], gameID |-> k[2], rating |-> ValueOf(f[k])] :
      k \in {x \in UU \X Items : ~isnan(f[x])}} :
   f \in [UU \X Items -> {NaN} \cup {{v} : v \in RatingVals}]}

InitALS ==
  /\ pc = "als_call"
  /\ userdata \in RecordSets(DataUsers) \ {{}}
  /\ traindata = userdata
  /\ train_p = pivot(traindata)
  /\ testdata = <<>> /\ testdata_filt = <<>>
  /\ train_p_filled = <<>> /\ coords = <<>> /\ ratings_est = <<>> /\ test_pred = <<>>
  /\ n_iterations \in 0..MaxIter
  /\ weighted \in BOOLEAN
  /\ verbose \in BOOLEAN
  /\ alsUnused
  /\ estUnused

ALSCellNext ==
  \/ ALSNext
  \/ WrapFrame
  \/ ClipUpper
  \/ ClipLower
  \/ Project
  \/ CallEstimate

SpecALS == InitALS /\ [][ALSCellNext]_vars

----------------------------------------------------------------------------
(* The whole notebook run, from the loaded files to test_pred *)

AllQueries == [userID : Users, gameID : Items]

InitPipe ==
  /\ pc = "filter"
  /\ userdata \in RecordSets(DataUsers)
  /\ testdata \in SeqsUpTo(AllQueries, MaxQueries)
  /\ \E q \in Range(testdata) : q.userID \in UsersOf(userdata)
  /\ traindata = {} /\ testdata_filt = <<>> /\ train_p = <<>>
  /\ train_p_filled = <<>> /\ coords = <<>> /\ ratings_est = <<>> /\ test_pred = <<>>
  /\ n_iterations = PipelineIterations
  /\ weighted = TRUE
  /\ verbose = TRUE
  /\ alsUnused
  /\ estUnused

PipeNext ==
  \/ Filter
  \/ Pivot
  \/ FillByALS
  \/ WrapFrame
  \/ ClipUpper
  \/ ClipLower
  \/ Project
  \/ CallEstimate
  \/ EstNext

SpecPipe == InitPipe /\ [][PipeNext]_vars

----------------------------------------------------------------------------
(* What estimate_ratings is expected to compute, stated apart from its loop *)

\* the ratings the walk over `order` (users, nearest first) collects
RECURSIVE CollectFrom(_, _, _, _, _)
CollectFrom(tp, game, order, k, acc) ==
  IF order = <<>> THEN acc
  ELSE IF ~HasRating(tp, game, Head(order))
       THEN CollectFrom(tp, game, Tail(order), k, acc)
       ELSE LET got == Append(acc, ValueOf(tp.cell[<<Head(order), game>>]))
            IN  IF EnoughRatings(got, k) THEN got
                ELSE CollectFrom(tp, game, Tail(order), k, got)

\* the estimates a query may get: one per admissible argsort
EstimatesOf(q) ==
  LET index == e_train_p.index
      dists == cdist(e_coords[get_loc(index, q.userID)], e_coords)
  IN  {mean(CollectFrom(e_train_p, q.gameID, [p \in 1..Len(s) |-> index[s[p]]],
                        numneighbors2use, <<>>)) : s \in argsort(dists)}

InQuery == pc \in {"walk", "mean"}

\* users of the table in the order the current walk takes them
WalkOrder == [p \in 1..Len(ind) |-> e_train_p.index[ind[p]]]

\* squared distance of user u from the current query's user
DistOf(u) ==
  cdist(e_coords[get_loc(e_train_p.index, rec.userID)], e_coords)[get_loc(e_train_p.index, u)]

\* no user of the table has a rating for the query's game
NoRater(q) ==
  /\ HasKey(e_train_p.index, q.userID)
  /\ HasKey(e_train_p.columns, q.gameID)
  /\ \A u \in Range(e_train_p.index) : isnan(e_train_p.cell[<<u, q.gameID>>])

----------------------------------------------------------------------------
(* C4: when estimate_ratings returns, it returns one estimate per query, the
   j-th being an estimate of the j-th query, and test_pred pairs the j-th
   query with the j-th estimate. *)
C4_OneEstimatePerQueryInOrder ==
  /\ pc \in {"est_loop", "walk", "mean"} => Len(rating) = qi - 1
  /\ pc \in {"submit", "done"} =>
       /\ Len(ratings_est) = Len(e_testdata)
       /\ \A j \in 1..Len(e_testdata) : ratings_est[j] \in EstimatesOf(e_testdata[j])
  /\ pc = "done" =>
       /\ Len(test_pred) = Len(testdata_filt)
       /\ \A j \in 1..Len(testdata_filt) :
            /\ test_pred[j].userID = testdata_filt[j].userID
            /\ test_pred[j].gameID = testdata_filt[j].gameID
            /\ test_pred[j].rating \in EstimatesOf(testdata_filt[j])

\* two queries with different estimates have been answered
C4_Witness ==
  /\ pc = "done"
  /\ Len(test_pred) = 2
  /\ test_pred[1].rating # test_pred[2].rating
  /\ test_pred[1].rating # NaN
  /\ test_pred[2].rating # NaN

(* C7: a query for whose game no user of the table has a rating gets the
   estimate NaN, raises no error, and the queries after it are estimated. *)
C7_NoRaterGivesNaN ==
  /\ \A j \in 1..Len(e_testdata) :
       (j < qi /\ NoRater(e_testdata[j])) => (j <= Len(rating) /\ rating[j] = NaN)
  /\ (pc = "KeyError" /\ qi <= Len(e_testdata)) => ~NoRater(e_testdata[qi])
  /\ pc \in {"submit", "done"} =>
       /\ Len(ratings_est) = Len(e_testdata)
       /\ \A j \in 1..Len(e_testdata) : NoRater(e_testdata[j]) => ratings_est[j] = NaN

\* a query without raters was followed by a query that got a number
C7_Witness ==
  /\ pc = "done"
  /\ Len(e_testdata) = 2
  /\ NoRater(e_testdata[1])
  /\ ratings_est[1] = NaN
  /\ ratings_est[2] # NaN

(* C8 as stated: the walk visits the users in the order of a stable sort by
   distance (ties in row order), and the query's user is visited first. *)
StableRank(u) ==
  1 + Cardinality({v \in Range(e_train_p.index) :
                     \/ DistOf(v) < DistOf(u)
                     \/ DistOf(v) = DistOf(u)
                        /\ get_loc(e_train_p.index, v) < get_loc(e_train_p.index, u)})

C8_StableSelfFirst ==
  InQuery =>
    /\ \A a \in 1..Len(visited) : StableRank(visited[a]) = a
    /\ visited # <<>> => visited[1] = rec.userID

(* C8 amended: the walk visits the users in ascending order of distance,
   nearest first and each once; the query's user is a candidate at distance
   0, so it is visited before every user at a positive distance (users at
   equal distance come in no determined order). *)
C8_AscendingWalk ==
  InQuery =>
    /\ \A a, b \in 1..Len(visited) : a < b =>
         /\ DistOf(visited[a]) <= DistOf(visited[b])
         /\ visited[a] # visited[b]
    /\ \A v \in Range(visited) : \A u \in Range(e_train_p.index) \ Range(visited) :
         DistOf(v) <= DistOf(u)
    /\ rec.userID \in Range(e_train_p.index)
    /\ DistOf(rec.userID) = 0
    /\ \A v \in Range(visited) : DistOf(v) > 0 => rec.userID \in Range(visited)

\* a walk that took another user at distance 0 before the query's user and
\* went on to a user further away
C8_Witness ==
  /\ InQuery
  /\ Len(visited) = 3
  /\ visited[1] # rec.userID
  /\ visited[2] = rec.userID
  /\ DistOf(visited[3]) > 0

(* C9 as stated: for every numneighbors2use >= 0 the number of collected
   ratings never exceeds numneighbors2use. *)
C9_NeverExceeds == InQuery => Len(ratings) <= numneighbors2use

(* C9 amended: for numneighbors2use >= 1 (0 behaves as 1) the number of
   collected ratings never exceeds numneighbors2use, the walk stops at the
   step where the count reaches it, the collected ratings are those of the
   first users in walk order that have a rating, and the estimate is their
   arithmetic mean. *)
NeighborCap == IF numneighbors2use >= 1 THEN numneighbors2use ELSE 1

C9_CollectsFirstRaters ==
  /\ InQuery =>
       /\ Len(ratings) <= NeighborCap
       /\ pc = "walk" => Len(ratings) < NeighborCap
       /\ pc = "mean" => Len(ratings) = NeighborCap
       /\ visited = SubSeq(WalkOrder, 1, Len(visited))
       /\ picked = SelectSeq(visited, LAMBDA u : ~isnan(e_train_p.cell[<<u, rec.gameID>>]))
       /\ ratings = [a \in 1..Len(picked) |-> ValueOf(e_train_p.cell[<<picked[a], rec.gameID>>])]
  /\ (pc = "est_loop" /\ qi > 1) =>
       /\ ratings = <<>> => rating[qi - 1] = NaN
       /\ ratings # <<>> =>
            /\ rating[qi - 1] # NaN
            /\ LET m == ValueOf(rating[qi - 1])
               IN  m[2] > 0 /\ m[1] * Len(ratings) = m[2] * SumSeq(ratings)
  /\ (pc = "est_loop" /\ qi > 1 /\ numneighbors2use = 1 /\ ratings # <<>>) =>
       rating[qi - 1] = {<<ratings[1], 1>>}

\* a walk that skipped a user without a rating and stopped before the end
C9_Witness ==
  /\ pc = "mean"
  /\ numneighbors2use >= 1
  /\ Len(ratings) = numneighbors2use
  /\ Len(picked) < Len(visited)
  /\ Len(visited) < Len(ind)

----------------------------------------------------------------------------
(* The pipeline run *)

\* the queries of testdata whose user has a row in the training table
Answerable == SelectSeq(testdata, LAMBDA q : HasKey(train_p.index, q.userID))

(* C1: in the pipeline run a neighbour's value is collected for a query only
   if the original rating matrix train_p holds an observed rating of that
   neighbour for the query's game. *)
C1_CollectsObservedOnly ==
  InQuery => \A u \in Range(picked) : ~isnan(train_p.cell[<<u, rec.gameID>>])

(* C2: the training matrix has a column for every gameID of the full ratings
   dataset, so the estimation loop fails on no query whose game is in the
   dataset. *)
C2_ColumnForEveryGame ==
  /\ pc \notin {"filter", "pivot"} => GamesOf(userdata) \subseteq Range(train_p.columns)
  /\ pc = "KeyError" => rec.gameID \notin GamesOf(userdata)

(* C3: a query whose userID has no row in the training matrix does not abort
   the batch: the row lookup of every query handed to estimate_ratings
   succeeds, a run with such a query (all games being games of the dataset)
   ends without an error, and test_pred then holds, in order, exactly the
   other queries, each with its estimate. *)
C3_AbsentUserDoesNotAbort ==
  /\ pc = "KeyError" => HasKey(e_train_p.index, rec.userID)
  /\ (/\ \E q \in Range(testdata) : q.userID \notin UsersOf(userdata)
      /\ \A q \in Range(testdata) : q.gameID \in GamesOf(userdata)) =>
       /\ pc # "KeyError"
       /\ pc = "done" =>
            /\ Len(test_pred) = Len(Answerable)
            /\ \A j \in 1..Len(Answerable) :
                 /\ test_pred[j].userID = Answerable[j].userID
                 /\ test_pred[j].gameID = Answerable[j].gameID
                 /\ test_pred[j].rating # NaN

----------------------------------------------------------------------------
(* do_ALS and the completed matrix *)

Clamped(v) == IF v > 10 THEN 10 ELSE IF v < 1 THEN 1 ELSE v

\* the entry of Q_hat that the table's cell (u, g) was made from
RawOf(u, g) == Q_hat[<<get_loc(train_p.index, u), get_loc(train_p.columns, g)>>]

(* C5: every entry of the completed matrix handed to the projection and to
   estimate_ratings is the entry of do_ALS's result brought into [1, 10]:
   10 if it was above 10, 1 if it was below 1, unchanged otherwise. *)
C5_CompletedMatrixInRange ==
  /\ pc \in {"svd", "estimate", "est_loop"} =>
       /\ train_p_filled.index = train_p.index
       /\ train_p_filled.columns = train_p.columns
       /\ \A k \in DOMAIN train_p_filled.cell :
            /\ train_p_filled.cell[k] = {Clamped(RawOf(k[1], k[2]))}
            /\ ValueOf(train_p_filled.cell[k]) \in 1..10
  /\ pc = "est_loop" => e_train_p = train_p_filled

\* a matrix with an entry above 10, one below 1 and one in range reached
\* estimate_ratings
C5_Witness ==
  /\ pc = "est_loop"
  /\ \E a, b, c \in DOMAIN Q_hat : Q_hat[a] > 10 /\ Q_hat[b] < 1 /\ Q_hat[c] \in 1..10

(* C6: for every n_iterations >= 0, weighted or not, verbose or not, do_ALS
   returns, having run n_iterations sweeps and recorded one error per sweep,
   each error non-negative. *)
C6_OneErrorPerSweep ==
  /\ pc # "UnboundLocalError"
  /\ pc = "als_loop" => Len(errors) = NextII
  /\ pc = "als_returned" =>
       /\ Len(errors) = n_iterations
       /\ NextII = n_iterations
       /\ \A j \in 1..Len(errors) : errors[j] >= 0

(* C10 as stated: W is 1 exactly at the cells for which the input records
   hold a rating, whatever the rating's value. *)
Observed(k) == ~isnan(train_p.cell[<<train_p.index[k[1]], train_p.columns[k[2]]>>])
RatingAt(k) == ValueOf(train_p.cell[<<train_p.index[k[1]], train_p.columns[k[2]]>>])

C10_WeightIffObserved ==
  pc \notin {"als_call"} =>
    \A k \in DOMAIN W : W[k] = (IF Observed(k) THEN 1 ELSE 0)

(* C10 amended: W is 1 exactly at the cells for which the input records hold
   a rating greater than 0.5 (every rating of the range 1..10), and 0 at
   every other cell: the 0 filled into a missing cell never counts as
   observed, and W keeps this value through the sweeps. *)
C10_WeightIffObservedAboveHalf ==
  pc \notin {"als_call"} =>
    /\ DOMAIN W = (1..Len(train_p.index)) \X (1..Len(train_p.columns))
    /\ \A k \in DOMAIN W :
         /\ W[k] \in {0, 1}
         /\ W[k] = 1 <=> (Observed(k) /\ 2 * RatingAt(k) > 1)
         /\ ~Observed(k) => (Q[k] = 0 /\ W[k] = 0)

\* do_ALS returned after a sweep on a matrix with a rated cell, a missing cell
\* and a cell rated 0
C10_Witness ==
  /\ pc = "als_returned"
  /\ errors # <<>>
  /\ \E a, b, c \in DOMAIN W :
       /\ Observed(a) /\ W[a] = 1
       /\ ~Observed(b) /\ W[b] = 0
       /\ Observed(c) /\ RatingAt(c) = 0

====
